---- MODULE Spec2Model ----
(***************************************************************************)
(* StorybookFSM (src/storybook_controller/storybook_fsm.py): the session   *)
(* controller of the interactive storybook.  The object's attributes are   *)
(* the record fsm; the handlers registered with the ROS node manager, the  *)
(* consumer loop and the transitions.Machine built at lines 228-230 are    *)
(* the actions.                                                            *)
(*                                                                         *)
(* The Machine is built with model=self: each trigger of the table is      *)
(* bound on the instance under its own name, so a call such as             *)
(* self.storybook_selected() runs the Machine's event and the same-named   *)
(* method of the class (lines 437-466) is shadowed by it.                  *)
(***************************************************************************)
EXTENDS Integers, Sequences, FiniteSets, TLC

VARIABLES
  fsm,          \* the attributes of the StorybookFSM object, and what the
                \* handler that ran last did (log, fired, exc)
  event_queue,  \* self.event_queue, a queue.Queue of StorybookEvent messages
  tq,           \* the Machine's _transition_queue (queued=True)
  pc,           \* where each thread is inside a handler
  cur,          \* per thread: the message it handles and the rule it runs
  calls,        \* per producer and per thread: the calls it has made, where
                \* a specification counts them
  taken         \* the numbered messages the consumer has taken, oldest first

vars == <<fsm, event_queue, tq, pc, cur, calls, taken>>

-----------------------------------------------------------------------------
(* Bounds of the model *)

MaxQueue == 1        \* messages waiting in event_queue in SpecThreads
MaxPage == 2         \* page numbers 0..MaxPage, the story has MaxPage+1 pages
MaxSentences == 2    \* sentences on a page
MaxPut == 2          \* messages per producer in SpecQueue
MaxCalls == 1        \* handler calls per thread in SpecThreads

-----------------------------------------------------------------------------
(* Values *)

\* Python's None in an integer attribute.
None == 0 - 9

\* StorybookEvent kinds.  The first eight are STORYBOOK_EVENT_MESSAGES.
STORYBOOK_EVENT_MESSAGES ==
  <<"HELLO_WORLD", "SPEECH_ACE_RESULT", "WORD_TAPPED", "SCENE_OBJECT_TAPPED",
    "SENTENCE_SWIPED", "RECORD_AUDIO_COMPLETE", "STORY_SELECTED",
    "STORY_LOADED">>

Allowed == {STORYBOOK_EVENT_MESSAGES[i] : i \in DOMAIN STORYBOOK_EVENT_MESSAGES}

\* Every kind a StorybookEvent message can carry: the kinds the consumer has
\* a branch for, and one it has none for.
EventKinds == Allowed \cup {"EVALUATE_MODE_SELECTED", "UNKNOWN_EVENT"}

states ==
  <<"APP_START", "BEGIN_EXPLORE", "BEGIN_EVALUATE", "WAITING_FOR_STORY_LOAD",
    "WAITING_FOR_NEXT_PAGE", "WAITING_FOR_CHILD_AUDIO",
    "WAITING_FOR_END_PAGE_JIBO_QUESTION", "WAITING_FOR_END_PAGE_CHILD_RESPONSE",
    "WAITING_FOR_NEXT_PAGE_JIBO_INTERLUDE", "END_STORY",
    "WAITING_FOR_END_STORY_CHILD_AUDIO", "END_EVALUATE">>

States == {states[i] : i \in DOMAIN states}

initial_state == "APP_START"

\* EndPageQuestionType
QuestionTypes == {"WORD_TAP", "SCENE_OBJECT_TAP", "WORD_PRONOUNCE"}

\* What student_model.get_end_page_questions() can return: the question
\* types of a non-empty list (one question is asked per page).
QuestionLists == {<<q>> : q \in QuestionTypes}

\* The answers of the student model a handler may need.
Envs == [child_turn : BOOLEAN, questions : QuestionLists]

PyBool(b) == IF b THEN "True" ELSE "False"

-----------------------------------------------------------------------------
(* The transition table *)

Rule(t, s, d, b, a, c) ==
  [trigger |-> t, source |-> s, dest |-> d, before |-> b, after |-> a,
   conditions |-> c]

evaluate_transitions ==
  << Rule("storybook_selected", "BEGIN_EVALUATE", "WAITING_FOR_STORY_LOAD",
          <<>>, <<"jibo_stall_story_loading">>, <<>>),
     Rule("storybook_loaded", "WAITING_FOR_STORY_LOAD", "WAITING_FOR_STORY_LOAD",
          <<"jibo_start_story">>, <<>>, <<>>),
     Rule("jibo_finish_tts", "WAITING_FOR_STORY_LOAD", "WAITING_FOR_NEXT_PAGE",
          <<>>, <<"tablet_next_page">>, <<>>),
     Rule("page_info_received", "WAITING_FOR_NEXT_PAGE", "WAITING_FOR_CHILD_AUDIO",
          <<>>, <<"tablet_show_next_sentence", "start_child_audio_timer">>, <<>>),
     Rule("child_audio_timeout", "WAITING_FOR_CHILD_AUDIO", "WAITING_FOR_CHILD_AUDIO",
          <<"jibo_reprompt_child_audio", "tablet_stop_and_discard_record">>,
          <<>>, <<>>),
     Rule("jibo_finish_tts", "WAITING_FOR_CHILD_AUDIO", "WAITING_FOR_CHILD_AUDIO",
          <<>>, <<"start_child_audio_timer", "tablet_begin_record">>, <<>>),
     Rule("child_sentence_audio_complete", "WAITING_FOR_CHILD_AUDIO",
          "WAITING_FOR_CHILD_AUDIO",
          <<>>, <<"tablet_show_next_sentence", "start_child_audio_timer">>,
          <<"more_sentences_available">>),
     Rule("child_sentence_audio_complete", "WAITING_FOR_CHILD_AUDIO",
          "WAITING_FOR_END_PAGE_JIBO_QUESTION",
          <<"stop_child_audio_timer">>, <<"send_end_page_prompt">>, <<>>),
     Rule("jibo_finish_tts", "WAITING_FOR_END_PAGE_JIBO_QUESTION",
          "WAITING_FOR_END_PAGE_CHILD_RESPONSE", <<>>, <<>>, <<>>),
     Rule("child_end_page_response_complete", "WAITING_FOR_END_PAGE_CHILD_RESPONSE",
          "WAITING_FOR_NEXT_PAGE_JIBO_INTERLUDE",
          <<>>, <<"jibo_next_page">>, <<"more_pages_available">>),
     Rule("jibo_finish_tts", "WAITING_FOR_NEXT_PAGE_JIBO_INTERLUDE",
          "WAITING_FOR_NEXT_PAGE", <<>>, <<"tablet_next_page">>, <<>>),
     Rule("child_end_page_response_complete", "WAITING_FOR_END_PAGE_CHILD_RESPONSE",
          "END_STORY", <<>>, <<"tablet_go_to_end_page", "jibo_end_story">>, <<>>),
     Rule("jibo_finish_tts", "END_STORY", "WAITING_FOR_END_STORY_CHILD_AUDIO",
          <<>>, <<>>, <<>>),
     Rule("jibo_finish_child_asr", "WAITING_FOR_END_STORY_CHILD_AUDIO",
          "END_EVALUATE", <<>>, <<"jibo_respond_to_end_story">>, <<>>),
     Rule("jibo_finish_tts", "END_EVALUATE", "END_EVALUATE",
          <<>>, <<"tablet_show_library_panel">>, <<>>),
     Rule("begin_evaluate_mode", "*", "BEGIN_EVALUATE", <<>>, <<>>, <<>>),
     Rule("jibo_finish_tts", "*", "=", <<>>, <<>>, <<>>),
     Rule("jibo_finish_child_asr", "*", "=", <<>>, <<>>, <<>>),
     Rule("page_info_received", "*", "=", <<>>, <<>>, <<>>) >>

Triggers == {evaluate_transitions[k].trigger : k \in DOMAIN evaluate_transitions}

-----------------------------------------------------------------------------
(* The object after __init__ *)

NoFire == [trigger |-> "none", source |-> "none", rule |-> 0]

InitFsm ==
  [ state |-> initial_state,
    jibo_tts_on |-> FALSE,
    jibo_asr_empty |-> TRUE,
    current_storybook_mode |-> "None",
    current_story_needs_download |-> "None",
    num_story_pages |-> None,
    current_page_number |-> None,
    current_sentences |-> None,        \* len(self.current_sentences)
    reported_evaluating_sentence_index |-> None,
    child_audio_evaluate_timer |-> "None",
    end_page_questions |-> <<>>,       \* the question_type of each question
    end_page_question_idx |-> None,
    exit_status |-> None,              \* set by sys.exit
    \* what the handler that ran last did
    event |-> "",                      \* the StorybookEvent it refused or
                                       \* took from the queue, "" when none
    log |-> <<>>,                      \* callbacks run, state set, commands sent
    fired |-> NoFire,                  \* the trigger it fired, where, which rule
    exc |-> "none" ]                   \* the exception it ended with

\* One entry of the log.
Cmd(ch, cmd) ==
  [ch |-> ch, cmd |-> cmd, index |-> None, child_turn |-> FALSE, record |-> FALSE]

Emit(s, e) == [s EXCEPT !.log = Append(@, e)]

Raise(s, x) == [s EXCEPT !.exc = x]

sys_exit(s) == [s EXCEPT !.exc = "SystemExit", !.exit_status = 1]

\* self.ros.send_storybook_command / send_jibo_command / send_jibo_asr_command
send_storybook_command(s, command) == Emit(s, Cmd("tablet", command))

send_jibo_command(s, command) == Emit(s, Cmd("jibo", command))

send_jibo_asr_command(s, command) == Emit(s, Cmd("asr", command))

-----------------------------------------------------------------------------
(* Conditions: "True", "False", or the exception the evaluation raises *)

more_sentences_available(s) ==
  IF s.reported_evaluating_sentence_index = None \/ s.current_sentences = None
  THEN "TypeError"
  ELSE PyBool(s.reported_evaluating_sentence_index + 1 < s.current_sentences)

\* The last page taken for one more page to turn to.
more_pages_available_off_by_one(s) ==
  IF s.current_page_number = None \/ s.num_story_pages = None
  THEN "TypeError"
  ELSE PyBool(s.current_page_number < s.num_story_pages)

more_pages_available(s) ==
  IF s.current_page_number = None \/ s.num_story_pages = None
  THEN "TypeError"
  ELSE PyBool(s.current_page_number + 1 < s.num_story_pages)

in_explore_mode(s) == s.current_storybook_mode = "EXPLORE_MODE"

in_evaluate_mode(s) == s.current_storybook_mode = "EVALUATE_MODE"

Condition(name, s) ==
  CASE name = "more_sentences_available" -> more_sentences_available(s)
    [] name = "more_pages_available" -> more_pages_available(s)

-----------------------------------------------------------------------------
(* Actions *)

\* The action without its command.
tablet_show_library_panel_silent(s) == s

tablet_show_library_panel(s) == send_storybook_command(s, "SHOW_LIBRARY_PANEL")

jibo_stall_story_loading(s) == s

\* The story started without the animation.
jibo_start_story_without_anim(s) == send_jibo_command(s, "SPEAK")

jibo_start_story(s) ==
  send_jibo_command(send_jibo_command(s, "HAPPY_ANIM"), "SPEAK")

tablet_next_page(s) == send_storybook_command(s, "NEXT_PAGE")

jibo_next_page(s) ==
  send_jibo_command(send_jibo_command(s, "HAPPY_ANIM"), "SPEAK")

\* The next sentence shown without the two fail-fast tests.
tablet_show_next_sentence_unchecked(s, env) ==
  IF s.current_page_number = None THEN Raise(s, "TypeError")
  ELSE IF s.reported_evaluating_sentence_index = None THEN Raise(s, "TypeError")
  ELSE IF s.current_sentences = None THEN Raise(s, "TypeError")
  ELSE Emit(s, [ch |-> "tablet", cmd |-> "SHOW_NEXT_SENTENCE",
                index |-> s.reported_evaluating_sentence_index + 1,
                child_turn |-> env.child_turn,
                record |-> in_evaluate_mode(s)])

tablet_show_next_sentence(s, env) ==
  IF s.current_page_number = None THEN Raise(s, "TypeError")
  ELSE IF s.current_page_number <= 0 THEN sys_exit(s)
  ELSE IF s.reported_evaluating_sentence_index = None THEN Raise(s, "TypeError")
  ELSE LET sentence_index == s.reported_evaluating_sentence_index + 1
       IN IF s.current_sentences = None THEN Raise(s, "TypeError")
          ELSE IF sentence_index < 0 \/ sentence_index >= s.current_sentences
          THEN sys_exit(s)
          ELSE Emit(s, [ch |-> "tablet", cmd |-> "SHOW_NEXT_SENTENCE",
                        index |-> sentence_index,
                        child_turn |-> env.child_turn,
                        record |-> in_evaluate_mode(s)])

tablet_begin_record(s) == send_storybook_command(s, "START_RECORD")

tablet_stop_and_discard_record(s) == send_storybook_command(s, "CANCEL_RECORD")

\* A threading.Timer is constructed and stored; its start() is not called.
start_child_audio_timer(s) ==
  [s EXCEPT !.child_audio_evaluate_timer = "initial"]

\* A stop that leaves the Timer as it is.
stop_child_audio_timer_no_cancel(s) ==
  IF s.child_audio_evaluate_timer = "None" THEN Raise(s, "AttributeError")
  ELSE s

\* Timer.cancel() sets the Timer's finished flag: a Timer that has not run its
\* function will not run it, one that has run it or was canceled stays as it
\* is.  With no Timer stored the attribute is None.
stop_child_audio_timer(s) ==
  IF s.child_audio_evaluate_timer = "None" THEN Raise(s, "AttributeError")
  ELSE IF s.child_audio_evaluate_timer = "initial"
  THEN [s EXCEPT !.child_audio_evaluate_timer = "canceled"]
  ELSE s

jibo_reprompt_child_audio(s) ==
  send_jibo_command(send_jibo_command(s, "HAPPY_ANIM"), "SPEAK")

send_end_page_prompt(s, env) ==
  LET s1 == Emit(s, Cmd("student", "get_end_page_questions"))
      s2 == [s1 EXCEPT !.end_page_questions = env.questions,
                       !.end_page_question_idx = 0]
  IN IF Len(s2.end_page_questions) = 0 THEN Raise(s2, "IndexError")
     ELSE Emit(s2, Cmd("question", "ask_question"))

tablet_go_to_end_page(s) == send_storybook_command(s, "GO_TO_END_PAGE")

jibo_end_story(s) ==
  send_jibo_command(
    send_jibo_command(send_jibo_command(s, "HAPPY_ANIM"), "SPEAK"),
    "QUESTION_ANIM")

jibo_respond_to_end_story(s) ==
  send_jibo_command(
    send_jibo_command(send_jibo_command(s, "HAPPY_ANIM"), "SPEAK"),
    "HAPPY_DANCE")

\* The method of the model called name.
Method(name, s, env) ==
  CASE name = "tablet_show_library_panel" -> tablet_show_library_panel(s)
    [] name = "jibo_stall_story_loading" -> jibo_stall_story_loading(s)
    [] name = "jibo_start_story" -> jibo_start_story(s)
    [] name = "tablet_next_page" -> tablet_next_page(s)
    [] name = "jibo_next_page" -> jibo_next_page(s)
    [] name = "tablet_show_next_sentence" -> tablet_show_next_sentence(s, env)
    [] name = "tablet_begin_record" -> tablet_begin_record(s)
    [] name = "tablet_stop_and_discard_record" -> tablet_stop_and_discard_record(s)
    [] name = "start_child_audio_timer" -> start_child_audio_timer(s)
    [] name = "stop_child_audio_timer" -> stop_child_audio_timer(s)
    [] name = "jibo_reprompt_child_audio" -> jibo_reprompt_child_audio(s)
    [] name = "send_end_page_prompt" -> send_end_page_prompt(s, env)
    [] name = "tablet_go_to_end_page" -> tablet_go_to_end_page(s)
    [] name = "jibo_end_story" -> jibo_end_story(s)
    [] name = "jibo_respond_to_end_story" -> jibo_respond_to_end_story(s)

\* machine.callback(func, event_data): every action prints its name first.
Callback(name, s, env) == Method(name, Emit(s, Cmd("action", name)), env)

\* The callbacks of a list in listed order; an exception ends the run.
RECURSIVE RunCallbacks(_, _, _, _)
RunCallbacks(names, i, s, env) ==
  IF i > Len(names) \/ s.exc # "none" THEN s
  ELSE RunCallbacks(names, i + 1, Callback(names[i], s, env), env)

-----------------------------------------------------------------------------
(* The Machine: Event.trigger and Transition.execute *)

\* The transitions of a trigger for a state, the rule declared last first.
Candidates_reversed(trigger, state) ==
  SelectSeq([i \in DOMAIN evaluate_transitions |->
               Len(evaluate_transitions) + 1 - i],
            LAMBDA k : /\ evaluate_transitions[k].trigger = trigger
                       /\ evaluate_transitions[k].source \in {state, "*"})

\* The transitions of a trigger whose source names the state.
Candidates_named(trigger, state) ==
  SelectSeq([k \in DOMAIN evaluate_transitions |-> k],
            LAMBDA k : /\ evaluate_transitions[k].trigger = trigger
                       /\ evaluate_transitions[k].source = state)

\* The transitions of a trigger for a state, in declaration order: a rule with
\* source "*" is a rule of every state.
Candidates(trigger, state) ==
  SelectSeq([k \in DOMAIN evaluate_transitions |-> k],
            LAMBDA k : /\ evaluate_transitions[k].trigger = trigger
                       /\ evaluate_transitions[k].source \in {state, "*"})

\* The conditions of a rule in listed order: "True", "False" or an exception.
RECURSIVE CheckConditions(_, _, _)
CheckConditions(conds, j, s) ==
  IF j > Len(conds) THEN "True"
  ELSE IF Condition(conds[j], s) = "True" THEN CheckConditions(conds, j + 1, s)
  ELSE Condition(conds[j], s)

RECURSIVE SelectRule(_, _, _)

\* Candidate i, whose conditions gave c, or the candidates after it.
SelectFrom(cands, i, s, c) ==
  IF c = "True" THEN cands[i]
  ELSE IF c = "False" THEN SelectRule(cands, i + 1, s)
  ELSE 0 - 1

\* The first candidate whose conditions all hold; 0 when none does, -1 when a
\* condition raises.
SelectRule(cands, i, s) ==
  IF i > Len(cands) THEN 0
  ELSE SelectFrom(cands, i, s,
                  CheckConditions(evaluate_transitions[cands[i]].conditions, 1, s))

\* The stay marker taken for the name of a state.
Dest_unresolved(k, state) == evaluate_transitions[k].dest

\* The rules of WAITING_FOR_END_PAGE_JIBO_QUESTION taken for stays.
Dest_question_stays(k, state) ==
  IF evaluate_transitions[k].source = "WAITING_FOR_END_PAGE_JIBO_QUESTION"
       \/ evaluate_transitions[k].dest = "="
  THEN state
  ELSE evaluate_transitions[k].dest

\* A stay taken for a return to the first declared state.
Dest_stay_restarts(k, state) ==
  IF evaluate_transitions[k].dest = "=" THEN states[1]
  ELSE evaluate_transitions[k].dest

\* The destination of rule k taken in state: "=" stays in place.
Dest(k, state) ==
  IF evaluate_transitions[k].dest = "=" THEN state
  ELSE evaluate_transitions[k].dest

\* The trigger and the rule applied (0: none), noted on the object.
Fired(s, trigger, k) ==
  [s EXCEPT !.fired = [trigger |-> trigger, source |-> s.state, rule |-> k]]

\* The state is set once the before-actions have returned.
ChangeState(s, dest) ==
  IF s.exc # "none" THEN s
  ELSE Emit([s EXCEPT !.state = dest], Cmd("state", dest))

\* Rule k executed with the state set before its before-actions run.
Execute_state_first(s, trigger, k, env) ==
  IF k < 0 THEN Raise(Fired(s, trigger, 0), "TypeError")
  ELSE IF k = 0 THEN Fired(s, trigger, 0)
  ELSE RunCallbacks(evaluate_transitions[k].before, 1,
                    ChangeState(Fired(s, trigger, k), Dest(k, s.state)), env)

\* Rule k is executed; k = 0: no rule passed its conditions, k = -1: a
\* condition raised.
Execute(s, trigger, k, env) ==
  IF k < 0 THEN Raise(Fired(s, trigger, 0), "TypeError")
  ELSE IF k = 0 THEN Fired(s, trigger, 0)
  ELSE ChangeState(RunCallbacks(evaluate_transitions[k].before, 1,
                               Fired(s, trigger, k), env),
                   Dest(k, s.state))

\* The candidates are tried in order.
EventTrigger(s, trigger, cands, env) ==
  IF Len(cands) = 0 THEN Raise(Fired(s, trigger, 0), "MachineError")
  ELSE Execute(s, trigger, SelectRule(cands, 1, s), env)

\* The first half of a transition: the rule is chosen, its before-actions run
\* and the state is set.  A trigger with no rule for the state raises
\* MachineError (ignore_invalid_triggers is not set).
Begin(s, trigger, env) ==
  IF s.exc # "none" THEN s
  ELSE EventTrigger(s, trigger, Candidates(trigger, s.state), env)

\* The second half: the after-actions of the rule that was applied.
Finish(s, k, env) ==
  IF s.exc # "none" \/ k = 0 THEN s
  ELSE RunCallbacks(evaluate_transitions[k].after, 1, s, env)

FinishFired(s, env) == Finish(s, s.fired.rule, env)

\* A whole transition, as one thread runs it with no other in between.
Fire(s, trigger, env) == FinishFired(Begin(s, trigger, env), env)

-----------------------------------------------------------------------------
(* Helpers *)

\* current_end_page_question raises unless the cursor is an index of the list.
HasCurrentQuestion(s) ==
  /\ s.end_page_question_idx # None
  /\ s.end_page_question_idx >= 0
  /\ s.end_page_question_idx < Len(s.end_page_questions)

current_end_page_question(s) == s.end_page_questions[s.end_page_question_idx + 1]

-----------------------------------------------------------------------------
(* The handlers.  Each calls at most one trigger: Pre is the code before the *)
(* call, Trigger the trigger called ("none": no call), Post the code after   *)
(* it.                                                                       *)

\* try_answer_question up to its trigger
try_answer_question(s, question_type) ==
  IF ~HasCurrentQuestion(s) THEN Raise(s, "Exception")
  ELSE IF question_type # current_end_page_question(s) THEN s
  ELSE Emit(s, Cmd("question", "try_answer"))

\* The trigger for a response of any type.
try_answer_trigger_any_type(s, question_type) ==
  IF HasCurrentQuestion(s) THEN "child_end_page_response_complete" ELSE "none"

\* the trigger try_answer_question ends with
try_answer_trigger(s, question_type) ==
  IF HasCurrentQuestion(s) /\ question_type = current_end_page_question(s)
  THEN "child_end_page_response_complete"
  ELSE "none"

Answering(s) == s.state = "WAITING_FOR_END_PAGE_CHILD_RESPONSE"

process_storybook_event_pre(s, data) ==
  CASE data.event_type = "HELLO_WORLD" ->
         send_storybook_command(
           send_jibo_asr_command(send_storybook_command(s, "PING_TEST"), "START"),
           "SET_STORYBOOK_MODE")
    [] data.event_type = "SPEECH_ACE_RESULT" ->
         Emit(Emit(s, Cmd("student", "update_with_duration")),
              Cmd("student", "update_with_speechace_result"))
    [] data.event_type = "WORD_TAPPED" ->
         IF in_evaluate_mode(s)
         THEN IF Answering(s) THEN try_answer_question(s, "WORD_TAP") ELSE s
         ELSE IF in_explore_mode(s)
         THEN send_jibo_command(
                Emit(s, Cmd("student", "update_with_explore_word_tapped")), "SPEAK")
         ELSE s
    [] data.event_type = "SCENE_OBJECT_TAPPED" ->
         IF in_evaluate_mode(s)
         THEN IF Answering(s) THEN try_answer_question(s, "SCENE_OBJECT_TAP") ELSE s
         ELSE IF in_explore_mode(s)
         \* line 309 reads the local word, which this branch never assigns
         THEN Raise(Emit(s, Cmd("student", "update_with_explore_scene_object_tapped")),
                    "UnboundLocalError")
         ELSE s
    [] data.event_type = "STORY_SELECTED" ->
         [s EXCEPT !.current_story_needs_download = PyBool(data.needs_download)]
    [] OTHER -> s

\* A swipe taken for the end of the recording.
process_storybook_event_trigger_swipe(s, data) ==
  CASE data.event_type \in {"HELLO_WORLD", "EVALUATE_MODE_SELECTED"} ->
         "begin_evaluate_mode"
    [] data.event_type = "WORD_TAPPED" ->
         IF in_evaluate_mode(s) /\ Answering(s)
         THEN try_answer_trigger(s, "WORD_TAP") ELSE "none"
    [] data.event_type = "SCENE_OBJECT_TAPPED" ->
         IF in_evaluate_mode(s) /\ Answering(s)
         THEN try_answer_trigger(s, "SCENE_OBJECT_TAP") ELSE "none"
    [] data.event_type \in {"RECORD_AUDIO_COMPLETE", "SENTENCE_SWIPED"} ->
         "child_sentence_audio_complete"
    [] data.event_type = "STORY_SELECTED" -> "storybook_selected"
    [] data.event_type = "STORY_LOADED" -> "storybook_loaded"
    [] OTHER -> "none"

process_storybook_event_trigger(s, data) ==
  CASE data.event_type \in {"HELLO_WORLD", "EVALUATE_MODE_SELECTED"} ->
         "begin_evaluate_mode"
    [] data.event_type = "WORD_TAPPED" ->
         IF in_evaluate_mode(s) /\ Answering(s)
         THEN try_answer_trigger(s, "WORD_TAP") ELSE "none"
    [] data.event_type = "SCENE_OBJECT_TAPPED" ->
         IF in_evaluate_mode(s) /\ Answering(s)
         THEN try_answer_trigger(s, "SCENE_OBJECT_TAP") ELSE "none"
    [] data.event_type = "RECORD_AUDIO_COMPLETE" -> "child_sentence_audio_complete"
    [] data.event_type = "STORY_SELECTED" -> "storybook_selected"
    [] data.event_type = "STORY_LOADED" -> "storybook_loaded"
    [] OTHER -> "none"

storybook_page_info_pre(s, data) ==
  Emit([s EXCEPT !.current_page_number = data.page_number,
                 !.current_sentences = data.sentences],
       Cmd("student", "update_sentences"))

storybook_state_ros_message_handler(s, data) ==
  [s EXCEPT !.current_storybook_mode = data.storybook_mode,
            !.num_story_pages = data.num_pages,
            !.reported_evaluating_sentence_index = data.evaluating_sentence_index]

\* A trigger for every message without sound, whatever the flag.
jibo_state_trigger_level(s, data) ==
  IF ~data.is_playing_sound THEN "jibo_finish_tts" ELSE "none"

jibo_state_trigger(s, data) ==
  IF ~data.is_playing_sound /\ s.jibo_tts_on THEN "jibo_finish_tts" ELSE "none"

jibo_state_post(s, data) == [s EXCEPT !.jibo_tts_on = data.is_playing_sound]

Silent(data) == data.transcription \in {"", "NOSPEECH"}

jibo_asr_pre(s, data) ==
  IF Silent(data) THEN s
  ELSE LET s1 == [s EXCEPT !.jibo_asr_empty = FALSE]
       IN IF Answering(s1) THEN try_answer_question(s1, "WORD_PRONOUNCE") ELSE s1

\* A trigger for every silent result, whatever the flag.
jibo_asr_trigger_level(s, data) ==
  IF Silent(data) THEN "jibo_finish_child_asr"
  ELSE IF Answering(s) THEN try_answer_trigger(s, "WORD_PRONOUNCE") ELSE "none"

jibo_asr_trigger(s, data) ==
  IF Silent(data)
  THEN IF ~s.jibo_asr_empty THEN "jibo_finish_child_asr" ELSE "none"
  ELSE IF Answering(s) THEN try_answer_trigger(s, "WORD_PRONOUNCE") ELSE "none"

jibo_asr_post(s, data) ==
  IF Silent(data) THEN [s EXCEPT !.jibo_asr_empty = TRUE] ELSE s

Handlers == {"process_storybook_event", "storybook_page_info", "jibo_state", "jibo_asr"}

Pre(h, s, data) ==
  CASE h = "process_storybook_event" -> process_storybook_event_pre(s, data)
    [] h = "storybook_page_info" -> storybook_page_info_pre(s, data)
    [] h = "jibo_asr" -> jibo_asr_pre(s, data)
    [] OTHER -> s

Trigger(h, s, data) ==
  CASE h = "process_storybook_event" -> process_storybook_event_trigger(s, data)
    [] h = "storybook_page_info" -> "page_info_received"
    [] h = "jibo_state" -> jibo_state_trigger(s, data)
    [] h = "jibo_asr" -> jibo_asr_trigger(s, data)

Post(h, s, data) ==
  CASE h = "jibo_state" -> jibo_state_post(s, data)
    [] h = "jibo_asr" -> jibo_asr_post(s, data)
    [] OTHER -> s

\* A handler starts: what the previous one did is forgotten.
Enter(s, e) ==
  [s EXCEPT !.event = e, !.log = <<>>, !.fired = NoFire, !.exc = "none"]

\* The StorybookEvent a handler processes.
Kind(h, data) ==
  IF h = "process_storybook_event" THEN data.event_type ELSE ""

\* The handler after its trigger returned or raised.
AfterTrigger(h, s, data) == IF s.exc # "none" THEN s ELSE Post(h, s, data)

\* The handler from its trigger t on.
FromTrigger(h, s, t, data, env) ==
  IF s.exc # "none" THEN s
  ELSE IF t = "none" THEN Post(h, s, data)
  ELSE AfterTrigger(h, Fire(s, t, env), data)

HandleFrom(h, s, data, env) ==
  FromTrigger(h, Pre(h, s, data), Trigger(h, s, data), data, env)

\* A handler run from its first line to its last with no other thread in
\* between: an exception ends it where it is raised.
Handle(h, s, data, env) == HandleFrom(h, Enter(s, Kind(h, data)), data, env)

\* Whether the student model was asked for something env answers.
UsesEnv(s) ==
  \E i \in DOMAIN s.log :
    s.log[i].cmd \in {"SHOW_NEXT_SENTENCE", "get_end_page_questions"}

Env0 == [child_turn |-> FALSE, questions |-> <<"WORD_TAP">>]

\* r is the outcome with the answers Env0.
Answers(h, s, data, r) ==
  IF UsesEnv(r) THEN {Handle(h, s, data, env) : env \in Envs} ELSE {r}

\* Every way a handler can end, over the answers of the student model.
Outcomes(h, s, data) == Answers(h, s, data, Handle(h, s, data, Env0))

process_storybook_event(s, data, env) ==
  Handle("process_storybook_event", s, data, env)

storybook_page_info_ros_message_handler(s, data, env) ==
  Handle("storybook_page_info", s, data, env)

jibo_state_ros_message_handler(s, data, env) == Handle("jibo_state", s, data, env)

jibo_asr_ros_message_handler(s, data, env) == Handle("jibo_asr", s, data, env)

-----------------------------------------------------------------------------
(* Messages *)

Producers == {"producer1", "producer2"}

Threads == {"consumer", "storybook_page_info", "jibo_state", "jibo_asr"}

\* A StorybookEvent.  producer, seq and ticket say who put it, as which of its
\* own puts and as which put of the run; they are "", 0 and 0 where puts are
\* not counted.
Event(kind, nd, p, k, n) ==
  [event_type |-> kind, needs_download |-> nd, producer |-> p, seq |-> k,
   ticket |-> n]

\* needs_download of a message; the value is stored and never read.
NeedsDownload == {FALSE}

PageInfos == [page_number : 0..MaxPage, sentences : {MaxSentences}]

StorybookStates(modes) ==
  [storybook_mode : modes,
   num_pages : {MaxPage + 1},
   evaluating_sentence_index : (0 - 1)..(MaxSentences - 1)]

JiboStates == [is_playing_sound : BOOLEAN]

\* The transcriptions of a result: two silent ones, the words the current
\* question asks for, and other words.
Transcriptions == {"", "NOSPEECH", "words", "other words"}

JiboAsrResults == [transcription : Transcriptions]

\* try_answer of a question object, called at line 622; its text is not part
\* of the program.  It reports whether the query satisfied the question.
try_answer(query) == query = "words"

NoCall == [h |-> "none", data |-> <<>>, rule |-> 0]

-----------------------------------------------------------------------------
(* The program, a handler at a time *)

Init ==
  /\ fsm = InitFsm
  /\ event_queue = <<>>
  /\ tq = <<>>
  /\ pc = [t \in Threads |-> "idle"]
  /\ cur = [t \in Threads |-> NoCall]
  /\ calls = [c \in Producers \cup Threads |-> 0]
  /\ taken = <<>>

Running == fsm.exit_status = None

\* The entry point without its allowlist check.
storybook_event_ros_message_handler_unchecked(data, cap) ==
  /\ Running
  /\ Len(event_queue) < cap
  /\ event_queue' = Append(event_queue, data)
  /\ fsm' = Enter(fsm, "")

\* storybook_event_ros_message_handler, with cap messages at most waiting
storybook_event_ros_message_handler(data, cap) ==
  /\ Running
  /\ IF data.event_type \in Allowed
     THEN /\ Len(event_queue) < cap
          /\ event_queue' = Append(event_queue, data)
          /\ fsm' = Enter(fsm, "")
     ELSE /\ event_queue' = event_queue
          /\ fsm' = sys_exit(Enter(fsm, data.event_type))

\* A StorybookEvent arrives.  Here one message waits at most: what a handler
\* does depends on no message behind the one it processes.  SpecQueue and
\* SpecThreads let more wait.
StorybookEventHandler ==
  /\ \E kind \in EventKinds : \E nd \in NeedsDownload :
       storybook_event_ros_message_handler(Event(kind, nd, "", 0, 0), 1)
  /\ UNCHANGED <<tq, pc, cur, calls, taken>>

\* What an uncaught exception does to the thread that ran the handler: the
\* consumer loop catches queue.Empty only and ends.
AfterHandler(t, s) ==
  IF t = "consumer" /\ s.exc # "none" THEN "dead" ELSE "idle"

\* A queue that hands out the newest message first.
get_nowait_lifo(q) == q[Len(q)]

\* event_queue.get_nowait(): the message returned
get_nowait(q) == Head(q)

\* The numbered messages taken so far.
Take(data) == IF data.ticket = 0 THEN taken ELSE Append(taken, data)

\* One round of process_main_event_queue with a message waiting.
Consume ==
  /\ Running
  /\ pc["consumer"] = "idle"
  /\ event_queue # <<>>
  /\ fsm' \in Outcomes("process_storybook_event", fsm, get_nowait(event_queue))
  /\ event_queue' = Tail(event_queue)
  /\ pc' = [pc EXCEPT !["consumer"] = AfterHandler("consumer", fsm')]
  /\ taken' = Take(get_nowait(event_queue))
  /\ UNCHANGED <<tq, cur, calls>>

PageInfoHandler ==
  /\ Running
  /\ \E data \in PageInfos :
       fsm' \in Outcomes("storybook_page_info", fsm, data)
  /\ UNCHANGED <<event_queue, tq, pc, cur, calls, taken>>

StorybookStateIn(modes) ==
  /\ Running
  /\ \E data \in StorybookStates(modes) :
       fsm' = storybook_state_ros_message_handler(Enter(fsm, ""), data)
  /\ UNCHANGED <<event_queue, tq, pc, cur, calls, taken>>

StorybookStateHandler == StorybookStateIn({"EVALUATE_MODE"})

JiboStateHandler ==
  /\ Running
  /\ \E data \in JiboStates : fsm' \in Outcomes("jibo_state", fsm, data)
  /\ UNCHANGED <<event_queue, tq, pc, cur, calls, taken>>

JiboAsrHandler ==
  /\ Running
  /\ \E data \in JiboAsrResults : fsm' \in Outcomes("jibo_asr", fsm, data)
  /\ UNCHANGED <<event_queue, tq, pc, cur, calls, taken>>

Next ==
  \/ StorybookEventHandler
  \/ Consume
  \/ PageInfoHandler
  \/ StorybookStateHandler
  \/ JiboStateHandler
  \/ JiboAsrHandler

Spec == Init /\ [][Next]_vars

-----------------------------------------------------------------------------
(* The function of the Timer.  start_child_audio_timer hands timer_expire to *)
(* threading.Timer, whose thread calls it once when the countdown ends unless *)
(* the Timer was canceled.  No line of the program starts that thread (see   *)
(* start_child_audio_timer), so Spec has no such step; SpecTimer adds the    *)
(* call, to examine what timer_expire and the child_audio_timeout rule do    *)
(* when they run.                                                            *)

\* The Timer after its thread has called its function.
Expired(s) ==
  IF s.child_audio_evaluate_timer = "initial"
  THEN [s EXCEPT !.child_audio_evaluate_timer = "fired"]
  ELSE s

\* timer_expire: the trigger is fired on the thread that makes the call.
timer_expire(s) == Fire(Enter(s, ""), "child_audio_timeout", Env0)

TimerExpire ==
  /\ Running
  /\ fsm.child_audio_evaluate_timer = "initial"
  /\ fsm' = Expired(timer_expire(fsm))
  /\ UNCHANGED <<event_queue, tq, pc, cur, calls, taken>>

NextTimer ==
  \/ StorybookEventHandler
  \/ Consume
  \/ PageInfoHandler
  \/ StorybookStateHandler
  \/ JiboStateHandler
  \/ JiboAsrHandler
  \/ TimerExpire

SpecTimer == Init /\ [][NextTimer]_vars

-----------------------------------------------------------------------------
(* The program up to the first sentence of a story, with what must happen.  *)
(* The consumer loop polls the queue for as long as the process runs: a     *)
(* message that waits is taken.  The messages come when their senders send  *)
(* them, and no thread runs the Timer (its start() is never called), so     *)
(* nothing else is required to happen.                                      *)

\* The kinds that open a story.
OpeningKinds == {"HELLO_WORLD", "STORY_SELECTED"}

OpeningEvent ==
  /\ \E kind \in OpeningKinds :
       storybook_event_ros_message_handler(Event(kind, FALSE, "", 0, 0), 1)
  /\ UNCHANGED <<tq, pc, cur, calls, taken>>

\* The title page (page 0) or the first page with sentences is shown.
FirstPageInfo ==
  /\ Running
  /\ \E data \in {d \in PageInfos : d.page_number < 2} :
       fsm' \in Outcomes("storybook_page_info", fsm, data)
  /\ UNCHANGED <<event_queue, tq, pc, cur, calls, taken>>

\* The tablet reports that no sentence or the first one is evaluated.
FirstSentenceState ==
  /\ Running
  /\ \E data \in {d \in StorybookStates({"EVALUATE_MODE"}) :
                     d.evaluating_sentence_index < 1} :
       fsm' = storybook_state_ros_message_handler(Enter(fsm, ""), data)
  /\ UNCHANGED <<event_queue, tq, pc, cur, calls, taken>>

NextOpening ==
  \/ OpeningEvent
  \/ Consume
  \/ FirstPageInfo
  \/ FirstSentenceState
  \/ JiboStateHandler

SpecOpening == Init /\ [][NextOpening]_vars /\ WF_vars(Consume)

-----------------------------------------------------------------------------
(* The queue alone: producers that number their messages, and the consumer *)

QueueKinds == {"HELLO_WORLD", "SENTENCE_SWIPED", "STORY_SELECTED", "UNKNOWN_EVENT"}

Puts == calls["producer1"] + calls["producer2"]

ProducerPut ==
  /\ \E p \in Producers : \E kind \in QueueKinds :
       /\ calls[p] < MaxPut
       /\ storybook_event_ros_message_handler(
            Event(kind, FALSE, p, calls[p] + 1, Puts + 1),
            MaxPut * Cardinality(Producers))
       /\ calls' = [calls EXCEPT ![p] = @ + 1]
  /\ UNCHANGED <<tq, pc, cur, taken>>

NextQueue == ProducerPut \/ Consume

SpecQueue == Init /\ [][NextQueue]_vars

-----------------------------------------------------------------------------
(* The program, a step of a thread at a time.  The handlers run on their own *)
(* threads; a trigger goes through Machine._process (queued=True):           *)
(*     self._transition_queue.append(trigger)                                *)
(*     if len(self._transition_queue) > 1: return True                       *)
(*     while self._transition_queue:                                         *)
(*         self._transition_queue[0](); self._transition_queue.popleft()     *)
(* and an exception clears the queue and is raised again.                    *)

HandlerOf(t) == IF t = "consumer" THEN "process_storybook_event" ELSE t

Inputs(t) ==
  CASE t = "consumer" -> {get_nowait(event_queue)}
    [] t = "storybook_page_info" -> {d \in PageInfos : d.page_number = 1}
    [] t = "jibo_state" -> JiboStates
    [] t = "jibo_asr" -> JiboAsrResults

\* The handler up to its trigger, which is appended to the Machine's queue.
ThreadStart(t) ==
  /\ Running
  /\ pc[t] = "idle"
  /\ calls[t] < MaxCalls
  /\ t = "consumer" => event_queue # <<>>
  /\ \E data \in Inputs(t) :
       LET h == HandlerOf(t)
           s0 == Enter(fsm, Kind(h, data))
           s1 == Pre(h, s0, data)
           trig == Trigger(h, s0, data)
       IN /\ IF s1.exc # "none"
             THEN /\ fsm' = s1
                  /\ pc' = [pc EXCEPT ![t] = AfterHandler(t, s1)]
                  /\ UNCHANGED <<tq, cur>>
             ELSE IF trig = "none"
             THEN /\ fsm' = Post(h, s1, data)
                  /\ UNCHANGED <<tq, pc, cur>>
             ELSE /\ fsm' = s1
                  /\ tq' = Append(tq, trig)
                  /\ pc' = [pc EXCEPT ![t] = "check"]
                  /\ cur' = [cur EXCEPT ![t] = [h |-> h, data |-> data, rule |-> 0]]
          /\ taken' = IF t = "consumer" THEN Take(data) ELSE taken
  /\ event_queue' = IF t = "consumer" THEN Tail(event_queue) ELSE event_queue
  /\ calls' = [calls EXCEPT ![t] = @ + 1]

\* if len(self._transition_queue) > 1: return True
ThreadCheck(t) ==
  /\ Running
  /\ pc[t] = "check"
  /\ pc' = [pc EXCEPT ![t] = IF Len(tq) > 1 THEN "post" ELSE "loop"]
  /\ UNCHANGED <<fsm, event_queue, tq, cur, calls, taken>>

\* while self._transition_queue: the first half of self._transition_queue[0]()
ThreadLoop(t) ==
  /\ Running
  /\ pc[t] = "loop"
  /\ IF tq = <<>>
     THEN /\ pc' = [pc EXCEPT ![t] = "post"]
          /\ UNCHANGED <<fsm, tq, cur>>
     ELSE \E s1 \in {Begin([fsm EXCEPT !.exc = "none"], Head(tq), env) : env \in Envs} :
            /\ fsm' = s1
            /\ IF s1.exc # "none"
               THEN /\ tq' = <<>>
                    /\ pc' = [pc EXCEPT ![t] = AfterHandler(t, s1)]
                    /\ cur' = cur
               ELSE /\ tq' = tq
                    /\ pc' = [pc EXCEPT ![t] = IF s1.fired.rule = 0 THEN "pop" ELSE "after"]
                    /\ cur' = [cur EXCEPT ![t].rule = s1.fired.rule]
  /\ UNCHANGED <<event_queue, calls, taken>>

\* the second half of self._transition_queue[0]()
ThreadAfter(t) ==
  /\ Running
  /\ pc[t] = "after"
  /\ \E s1 \in {Finish([fsm EXCEPT !.exc = "none"], cur[t].rule, env) : env \in Envs} :
       /\ fsm' = s1
       /\ IF s1.exc # "none"
          THEN /\ tq' = <<>>
               /\ pc' = [pc EXCEPT ![t] = AfterHandler(t, s1)]
          ELSE /\ tq' = tq
               /\ pc' = [pc EXCEPT ![t] = "pop"]
  /\ UNCHANGED <<event_queue, cur, calls, taken>>

\* self._transition_queue.popleft(): IndexError when another thread emptied it
ThreadPop(t) ==
  /\ Running
  /\ pc[t] = "pop"
  /\ IF tq = <<>>
     THEN /\ fsm' = Raise([fsm EXCEPT !.exc = "none"], "IndexError")
          /\ pc' = [pc EXCEPT ![t] = AfterHandler(t, fsm')]
          /\ tq' = tq
     ELSE /\ tq' = Tail(tq)
          /\ pc' = [pc EXCEPT ![t] = "loop"]
          /\ fsm' = fsm
  /\ UNCHANGED <<event_queue, cur, calls, taken>>

\* the handler after its trigger returned
ThreadPost(t) ==
  /\ Running
  /\ pc[t] = "post"
  /\ fsm' = Post(cur[t].h, fsm, cur[t].data)
  /\ pc' = [pc EXCEPT ![t] = "idle"]
  /\ UNCHANGED <<event_queue, tq, cur, calls, taken>>

\* The messages put while the threads are watched.
ThreadKinds == {"HELLO_WORLD", "STORY_SELECTED"}

ThreadPut ==
  /\ \E kind \in ThreadKinds :
       storybook_event_ros_message_handler(Event(kind, FALSE, "", 0, 0), MaxQueue)
  /\ UNCHANGED <<tq, pc, cur, calls, taken>>

NextThreads ==
  \/ ThreadPut
  \/ \E t \in Threads : ThreadStart(t)
  \/ \E t \in Threads : ThreadCheck(t)
  \/ \E t \in Threads : ThreadLoop(t)
  \/ \E t \in Threads : ThreadAfter(t)
  \/ \E t \in Threads : ThreadPop(t)
  \/ \E t \in Threads : ThreadPost(t)

SpecThreads == Init /\ [][NextThreads]_vars

-----------------------------------------------------------------------------
(* What the handler that ran last did, read from its log *)

Did(ch, cmd) == \E i \in DOMAIN fsm.log : fsm.log[i].ch = ch /\ fsm.log[i].cmd = cmd

DidBefore(ch1, cmd1, ch2, cmd2) ==
  \E i, j \in DOMAIN fsm.log :
    /\ i < j
    /\ fsm.log[i].ch = ch1 /\ fsm.log[i].cmd = cmd1
    /\ fsm.log[j].ch = ch2 /\ fsm.log[j].cmd = cmd2

Commanded == \E i \in DOMAIN fsm.log : fsm.log[i].ch \in {"tablet", "jibo", "asr"}

FiredIn(trigger, source) ==
  fsm.fired.trigger = trigger /\ fsm.fired.source = source

-----------------------------------------------------------------------------
(* The queue *)

\* C1: the consumer takes the messages in one order, the order in which the
\* puts completed: the k-th message it takes is the k-th that was put, the
\* messages still waiting follow in put order, and two messages of one
\* producer are never taken in the opposite order.
C1_Fifo ==
  /\ \A i \in DOMAIN taken : taken[i].ticket = i
  /\ \A i \in DOMAIN event_queue : event_queue[i].ticket = Len(taken) + i
  /\ \A i, j \in DOMAIN taken :
       (i < j /\ taken[i].producer = taken[j].producer)
         => taken[i].seq < taken[j].seq

\* Two messages of one producer taken, with one of the other producer taken
\* between them, while more than one message was waiting.
C1_Witness ==
  /\ Len(event_queue) >= 1
  /\ \E i, j, k \in DOMAIN taken :
       /\ i < j /\ j < k
       /\ taken[i].producer = taken[k].producer
       /\ taken[i].producer # taken[j].producer

-----------------------------------------------------------------------------
(* The threads *)

\* A thread is inside a transition from the moment the rule's before-actions
\* and state change have run until its after-actions have.
InFlight == {t \in Threads : pc[t] = "after"}

\* C2: at most one transition is in flight at any instant, under every
\* interleaving of the consumer and the handler threads.
C2_OneTransitionInFlight == Cardinality(InFlight) <= 1

-----------------------------------------------------------------------------
(* Triggers without a rule *)

NoRuleFor(trigger, state) == Len(Candidates(trigger, state)) = 0

\* C3: a trigger fired in a state for which the table has no rule of that
\* trigger (source the state or the wildcard) leaves the state as it was and
\* raises nothing.
C3_UnmatchedTriggerIsNoOp ==
  (fsm.fired.trigger # "none" /\ NoRuleFor(fsm.fired.trigger, fsm.fired.source))
    => (fsm.state = fsm.fired.source /\ fsm.exc = "none")

-----------------------------------------------------------------------------
(* The child's sentence audio *)

\* The guards read after the transition, which leaves these attributes as
\* they were.
MoreSentences ==
  /\ fsm.reported_evaluating_sentence_index # None
  /\ fsm.current_sentences # None
  /\ fsm.reported_evaluating_sentence_index + 1 < fsm.current_sentences

NoMoreSentences ==
  /\ fsm.reported_evaluating_sentence_index # None
  /\ fsm.current_sentences # None
  /\ ~(fsm.reported_evaluating_sentence_index + 1 < fsm.current_sentences)

MorePages ==
  /\ fsm.current_page_number # None
  /\ fsm.num_story_pages # None
  /\ fsm.current_page_number + 1 < fsm.num_story_pages

\* A countdown of the child audio timer is running.
TimerPending == fsm.child_audio_evaluate_timer = "started"

\* C4: child_sentence_audio_complete fired in WAITING_FOR_CHILD_AUDIO with more
\* sentences available stays in WAITING_FOR_CHILD_AUDIO, sends
\* SHOW_NEXT_SENTENCE to the tablet and leaves a new countdown of the child
\* audio timer pending.
C4_NextSentenceRestartsTimer ==
  (FiredIn("child_sentence_audio_complete", "WAITING_FOR_CHILD_AUDIO") /\ MoreSentences)
    => /\ fsm.state = "WAITING_FOR_CHILD_AUDIO"
       /\ Did("tablet", "SHOW_NEXT_SENTENCE")
       /\ TimerPending

\* C5: child_sentence_audio_complete fired in WAITING_FOR_CHILD_AUDIO with no
\* more sentences stops the timer before the state changes, moves to
\* WAITING_FOR_END_PAGE_JIBO_QUESTION, and then fetches the end-page
\* questions, sets the cursor to 0 and asks the first question.
C5_LastSentenceAsksQuestion ==
  (FiredIn("child_sentence_audio_complete", "WAITING_FOR_CHILD_AUDIO") /\ NoMoreSentences)
    => /\ fsm.state = "WAITING_FOR_END_PAGE_JIBO_QUESTION"
       /\ fsm.child_audio_evaluate_timer = "canceled"
       /\ DidBefore("action", "stop_child_audio_timer",
                    "state", "WAITING_FOR_END_PAGE_JIBO_QUESTION")
       /\ DidBefore("state", "WAITING_FOR_END_PAGE_JIBO_QUESTION",
                    "student", "get_end_page_questions")
       /\ DidBefore("student", "get_end_page_questions", "question", "ask_question")
       /\ fsm.end_page_question_idx = 0

-----------------------------------------------------------------------------
(* The child's end-of-page response *)

RespondedIn == FiredIn("child_end_page_response_complete",
                       "WAITING_FOR_END_PAGE_CHILD_RESPONSE")

\* C6: child_end_page_response_complete fired in
\* WAITING_FOR_END_PAGE_CHILD_RESPONSE leads to
\* WAITING_FOR_NEXT_PAGE_JIBO_INTERLUDE with the robot told to move on when
\* current_page_number + 1 < num_story_pages, and otherwise to END_STORY with
\* the tablet told to go to the end page and the robot to end the story.
C6_EndPageResponse ==
  RespondedIn
    => IF MorePages
       THEN /\ fsm.state = "WAITING_FOR_NEXT_PAGE_JIBO_INTERLUDE"
            /\ DidBefore("action", "jibo_next_page", "jibo", "SPEAK")
            /\ ~Did("tablet", "GO_TO_END_PAGE")
       ELSE /\ fsm.state = "END_STORY"
            /\ DidBefore("tablet", "GO_TO_END_PAGE", "action", "jibo_end_story")
            /\ DidBefore("action", "jibo_end_story", "jibo", "QUESTION_ANIM")
            /\ ~Did("action", "jibo_next_page")

C6_Witness ==
  /\ RespondedIn
  /\ MorePages
  /\ fsm.state = "WAITING_FOR_NEXT_PAGE_JIBO_INTERLUDE"
  /\ fsm.current_page_number >= 1

\* C7: after child_end_page_response_complete is fired in
\* WAITING_FOR_END_PAGE_CHILD_RESPONSE the end-page question list is empty and
\* the cursor unset, and the transition to one of the two destinations has
\* taken place.
C7_QuestionsReset ==
  RespondedIn
    => /\ fsm.end_page_questions = <<>>
       /\ fsm.end_page_question_idx = None
       /\ fsm.state \in {"WAITING_FOR_NEXT_PAGE_JIBO_INTERLUDE", "END_STORY"}

-----------------------------------------------------------------------------
(* The catch-all rules *)

WildcardTriggers == {"jibo_finish_tts", "jibo_finish_child_asr", "page_info_received"}

HasExactRule(trigger, state) ==
  \E k \in DOMAIN evaluate_transitions :
    /\ evaluate_transitions[k].trigger = trigger
    /\ evaluate_transitions[k].source = state

\* C8: jibo_finish_tts, jibo_finish_child_asr or page_info_received fired in a
\* state that has no rule of that trigger with exactly that source leaves the
\* state as it was, sends no command to the tablet or the robot and raises
\* nothing.
C8_CatchAllStays ==
  (/\ fsm.fired.trigger \in WildcardTriggers
   /\ ~HasExactRule(fsm.fired.trigger, fsm.fired.source))
    => /\ fsm.state = fsm.fired.source
       /\ ~Commanded
       /\ fsm.exc = "none"

\* jibo_finish_child_asr caught in the middle of a page.
C8_Witness ==
  /\ FiredIn("jibo_finish_child_asr", "WAITING_FOR_CHILD_AUDIO")
  /\ fsm.state = "WAITING_FOR_CHILD_AUDIO"

-----------------------------------------------------------------------------
(* Selecting and loading a story *)

\* C9: from BEGIN_EVALUATE, a STORY_SELECTED event leads to
\* WAITING_FOR_STORY_LOAD; a STORY_LOADED event processed there stays there
\* and sends the robot its happy animation and its speech; the robot's speech
\* ending there leads to WAITING_FOR_NEXT_PAGE and sends NEXT_PAGE to the
\* tablet.
C9_StoryStart ==
  /\ (fsm.event = "STORY_SELECTED" /\ fsm.fired.source = "BEGIN_EVALUATE")
       => /\ fsm.state = "WAITING_FOR_STORY_LOAD"
          /\ fsm.fired.trigger = "storybook_selected"
          /\ fsm.current_story_needs_download = "False"
  /\ (fsm.event = "STORY_LOADED" /\ fsm.fired.source = "WAITING_FOR_STORY_LOAD")
       => /\ fsm.state = "WAITING_FOR_STORY_LOAD"
          /\ fsm.fired.trigger = "storybook_loaded"
          /\ DidBefore("jibo", "HAPPY_ANIM", "jibo", "SPEAK")
  /\ FiredIn("jibo_finish_tts", "WAITING_FOR_STORY_LOAD")
       => /\ fsm.state = "WAITING_FOR_NEXT_PAGE"
          /\ Did("tablet", "NEXT_PAGE")
          /\ ~fsm.jibo_tts_on

\* The third step done: the robot's speech has ended in WAITING_FOR_STORY_LOAD
\* of a selected story.
C9_Witness ==
  /\ FiredIn("jibo_finish_tts", "WAITING_FOR_STORY_LOAD")
  /\ fsm.state = "WAITING_FOR_NEXT_PAGE"
  /\ fsm.current_story_needs_download = "False"
  /\ Did("tablet", "NEXT_PAGE")

-----------------------------------------------------------------------------
(* Messages outside the allowlist *)

Refused(s) == s.event # "" /\ s.event \notin Allowed

\* C10: a StorybookEvent whose kind is outside the allowlist is never put on
\* the queue and ends the process with exit status 1, the state and the
\* queue being as they were.
C10_UnknownKindExits ==
  /\ [](\A i \in DOMAIN event_queue : event_queue[i].event_type \in Allowed)
  /\ [](Refused(fsm) => (fsm.exit_status = 1 /\ fsm.exc = "SystemExit"))
  /\ [][Refused(fsm') =>
          (event_queue' = event_queue /\ fsm'.state = fsm.state)]_vars

\* A kind outside the allowlist arrives in the middle of a session, with a
\* message waiting.
C10_Witness ==
  /\ Refused(fsm)
  /\ fsm.exit_status = 1
  /\ fsm.state # initial_state
  /\ event_queue # <<>>

-----------------------------------------------------------------------------
(* The kinds of StorybookEvent *)

\* The kinds process_storybook_event has a branch for.
Handled ==
  { "HELLO_WORLD", "SPEECH_ACE_RESULT", "WORD_TAPPED", "SCENE_OBJECT_TAPPED",
    "SENTENCE_SWIPED", "RECORD_AUDIO_COMPLETE", "STORY_SELECTED",
    "STORY_LOADED", "EVALUATE_MODE_SELECTED" }

\* C11: a StorybookEvent of any of the nine kinds the consumer has a branch
\* for is accepted by the entry point: its arrival is never refused, so it
\* reaches the queue and the consumer (EVALUATE_MODE_SELECTED to fire
\* begin_evaluate_mode).
C11_NineKindsAccepted == Refused(fsm) => fsm.event \notin Handled

-----------------------------------------------------------------------------
(* The child audio timer *)

\* C12: whenever a handler has run start_child_audio_timer, exactly one
\* countdown of the child audio timer is pending afterwards, the one that
\* call started (and never more than one).
C12_StartLeavesOnePending ==
  Did("action", "start_child_audio_timer") => TimerPending

\* C13: the expiry of the child audio timer runs no transition itself:
\* child_audio_timeout is fired only by the consumer, in a step that takes an
\* event from the queue.
C13_TimeoutFiredByConsumer ==
  [][fsm'.fired.trigger = "child_audio_timeout"
       => Len(event_queue') < Len(event_queue)]_vars

-----------------------------------------------------------------------------
(* Who writes the session *)

\* The attributes of the session and of the end-page questions.
SessionState(s) ==
  << s.state, s.current_page_number, s.current_sentences,
     s.current_storybook_mode, s.reported_evaluating_sentence_index,
     s.jibo_tts_on, s.jibo_asr_empty, s.end_page_questions,
     s.end_page_question_idx >>

\* C14: the session state and the end-page questions change only in a step
\* of the consumer that takes an event from the queue; no step of a message
\* handler changes them.
C14_OnlyConsumerWrites ==
  [][SessionState(fsm') # SessionState(fsm)
       => Len(event_queue') < Len(event_queue)]_vars

-----------------------------------------------------------------------------
(* The child audio timeout *)

\* C15: child_audio_timeout fired in WAITING_FOR_CHILD_AUDIO has the robot
\* reprompt the child and the tablet discard the recording, starts the child
\* audio timer anew in that same transition, and stays in
\* WAITING_FOR_CHILD_AUDIO.
C15_TimeoutRepromptsAndRestarts ==
  FiredIn("child_audio_timeout", "WAITING_FOR_CHILD_AUDIO")
    => /\ fsm.state = "WAITING_FOR_CHILD_AUDIO"
       /\ DidBefore("jibo", "HAPPY_ANIM", "jibo", "SPEAK")
       /\ Did("tablet", "CANCEL_RECORD")
       /\ Did("action", "start_child_audio_timer")

-----------------------------------------------------------------------------
(* Which rule is applied *)

\* Rule k is a rule of the trigger fired, for the state it was fired in.
Matches(k) ==
  /\ evaluate_transitions[k].trigger = fsm.fired.trigger
  /\ evaluate_transitions[k].source \in {fsm.fired.source, "*"}

\* The guards of rule k all hold.  No action writes an attribute a guard
\* reads, so they hold after the handler as they did when the rule was chosen.
GuardsHold(k) ==
  \A j \in DOMAIN evaluate_transitions[k].conditions :
    Condition(evaluate_transitions[k].conditions[j], fsm) = "True"

\* C16: the rule applied is the first rule in declaration order whose trigger
\* is the one fired, whose source is the current state or "*", and whose
\* guards all hold: a rule with an exact source declared before a catch-all
\* wins over it, and an unguarded fallback is applied only when the guard of
\* the guarded rule before it is false.
C16_FirstMatchingRule ==
  fsm.fired.rule > 0
    => /\ Matches(fsm.fired.rule)
       /\ GuardsHold(fsm.fired.rule)
       /\ \A j \in 1..(fsm.fired.rule - 1) : ~(Matches(j) /\ GuardsHold(j))

\* The unguarded fallback of child_sentence_audio_complete applied after the
\* guarded rule, whose guard is false.
C16_Witness ==
  /\ FiredIn("child_sentence_audio_complete", "WAITING_FOR_CHILD_AUDIO")
  /\ fsm.fired.rule = 8
  /\ ~GuardsHold(7)
  /\ fsm.exc = "none"
  /\ fsm.state = "WAITING_FOR_END_PAGE_JIBO_QUESTION"

-----------------------------------------------------------------------------
(* The order of a transition *)

\* The actions run and the state set by the handler that ran last, in order.
Steps == SelectSeq(fsm.log, LAMBDA e : e.ch \in {"action", "state"})

Actions(names) == [i \in DOMAIN names |-> Cmd("action", names[i])]

\* What rule k fired in state source does, in order.
Expected(k, source) ==
  Actions(evaluate_transitions[k].before)
    \o <<Cmd("state", Dest(k, source))>>
    \o Actions(evaluate_transitions[k].after)

IsPrefix(p, q) == Len(p) <= Len(q) /\ SubSeq(q, 1, Len(p)) = p

\* The state has been set by the transition.
StateSet == \E i \in DOMAIN fsm.log : fsm.log[i].ch = "state"

-----------------------------------------------------------------------------
(* Triggers requested during a transition *)

\* Thread t takes the trigger at the head of the Machine's queue in this
\* step: its guards are evaluated, its before-actions run, the state is set.
Evaluates(t) == pc[t] = "loop" /\ tq # <<>> /\ pc'[t] # "loop"

\* C18: a trigger requested while the actions of another transition are
\* still running is deferred: no thread evaluates a trigger while the
\* after-actions of another thread's transition are still to run.
C18_RequestedTriggerDeferred ==
  [][\A t \in Threads :
       Evaluates(t) => \A u \in Threads \ {t} : pc[u] # "after"]_vars

-----------------------------------------------------------------------------
(* The countdown *)

\* The controller waits for the child's audio with a Timer that was stored
\* and not canceled.
Armed ==
  /\ Running
  /\ fsm.state = "WAITING_FOR_CHILD_AUDIO"
  /\ fsm.child_audio_evaluate_timer = "initial"

\* The handler that ran last stored a new Timer.
Replaced == Did("action", "start_child_audio_timer")

TimeoutFired == fsm.fired.trigger = "child_audio_timeout"

\* C19: start_child_audio_timer arms a countdown: once a Timer is stored and
\* the controller waits in WAITING_FOR_CHILD_AUDIO, child_audio_timeout is
\* eventually fired, unless the controller leaves the state or the Timer is
\* canceled or replaced first.
C19_CountdownFires ==
  (Armed /\ ~Replaced) ~> (TimeoutFired \/ ~Armed \/ Replaced)

-----------------------------------------------------------------------------
(* Stopping the timer *)

\* The handler that ended in s ran stop_child_audio_timer.
StopRan(s) ==
  \E i \in DOMAIN s.log : s.log[i] = Cmd("action", "stop_child_audio_timer")

\* The Timer has run its function or was canceled.
Finished(s) == s.child_audio_evaluate_timer \in {"canceled", "fired"}

\* C20: stop_child_audio_timer on a Timer that has not run its function
\* cancels it, and a canceled Timer never fires child_audio_timeout; on a
\* Timer that has run its function or was canceled already it changes
\* nothing; with a Timer stored it does not raise.
C20_StopDisarms ==
  /\ [][StopRan(fsm') =>
          /\ fsm.child_audio_evaluate_timer # "None" => fsm'.exc # "AttributeError"
          /\ fsm.child_audio_evaluate_timer = "initial"
               => fsm'.child_audio_evaluate_timer = "canceled"
          /\ Finished(fsm) => fsm'.child_audio_evaluate_timer
                                = fsm.child_audio_evaluate_timer]_vars
  /\ [][Finished(fsm) => fsm'.fired.trigger # "child_audio_timeout"]_vars

\* The Timer was stopped before it ran its function, at the last sentence of
\* a page.
C20_Witness ==
  /\ StopRan(fsm)
  /\ fsm.child_audio_evaluate_timer = "canceled"
  /\ fsm.exc = "none"
  /\ fsm.state = "WAITING_FOR_END_PAGE_JIBO_QUESTION"

-----------------------------------------------------------------------------
(* The robot's messages *)

\* C21: jibo_finish_tts is fired exactly in the steps that handle a JiboState
\* with is_playing_sound false while jibo_tts_on is true, once per such
\* message, and after a JiboState is handled jibo_tts_on is the message's
\* is_playing_sound.
C21_FinishTtsOnFallingEdge ==
  /\ [][fsm'.fired.trigger = "jibo_finish_tts"
          <=> (fsm.jibo_tts_on /\ ~fsm'.jibo_tts_on)]_vars
  /\ [][\A data \in JiboStates :
          fsm' \in Outcomes("jibo_state", fsm, data)
            => fsm'.jibo_tts_on = data.is_playing_sound]_vars

\* The robot's speech ended while the child's audio was awaited: the rule of
\* that state ran.
C21_Witness ==
  /\ FiredIn("jibo_finish_tts", "WAITING_FOR_CHILD_AUDIO")
  /\ ~fsm.jibo_tts_on
  /\ Did("tablet", "START_RECORD")

\* C22: jibo_finish_child_asr is fired exactly in the steps that handle an
\* empty or NOSPEECH transcription while jibo_asr_empty is false; after such
\* a result jibo_asr_empty is true, after any other transcription it is
\* false, so consecutive silent results fire the trigger once at most.
C22_FinishAsrOnSilence ==
  /\ [][fsm'.fired.trigger = "jibo_finish_child_asr"
          <=> (~fsm.jibo_asr_empty /\ fsm'.jibo_asr_empty)]_vars
  /\ [][\A data \in JiboAsrResults :
          \/ fsm'.jibo_asr_empty = Silent(data)
          \/ fsm' \notin Outcomes("jibo_asr", fsm, data)]_vars

\* The child stopped speaking at the end of the story: the rule of that
\* state ran.
C22_Witness ==
  /\ FiredIn("jibo_finish_child_asr", "WAITING_FOR_END_STORY_CHILD_AUDIO")
  /\ fsm.jibo_asr_empty
  /\ fsm.state = "END_EVALUATE"

-----------------------------------------------------------------------------
(* Showing the next sentence *)

\* tablet_show_next_sentence fails fast: the page has no words, or
\* sentence_index is outside the sentences of the page (an unset index is no
\* number and is not outside).
CannotShow ==
  \/ fsm.current_page_number # None /\ fsm.current_page_number <= 0
  \/ /\ fsm.reported_evaluating_sentence_index # None
     /\ fsm.current_sentences # None
     /\ \/ fsm.reported_evaluating_sentence_index + 1 < 0
        \/ fsm.reported_evaluating_sentence_index + 1 >= fsm.current_sentences

\* The SHOW_NEXT_SENTENCE command for the sentence after the reported one.
ShownNext ==
  \E i \in DOMAIN fsm.log :
    /\ fsm.log[i].ch = "tablet"
    /\ fsm.log[i].cmd = "SHOW_NEXT_SENTENCE"
    /\ fsm.log[i].index = fsm.reported_evaluating_sentence_index + 1
    /\ fsm.log[i].child_turn \in BOOLEAN
    /\ fsm.log[i].record = (fsm.current_storybook_mode = "EVALUATE_MODE")

\* C23: tablet_show_next_sentence with current_page_number <= 0, or with
\* reported_evaluating_sentence_index + 1 outside the current sentences, ends
\* the process with exit status 1 and sends no SHOW_NEXT_SENTENCE; in every
\* other case it sends SHOW_NEXT_SENTENCE with that index, the learner
\* model's child_turn, and record true exactly in evaluate mode.
C23_ShowNextSentence ==
  Did("action", "tablet_show_next_sentence")
    => IF CannotShow
       THEN fsm.exit_status = 1 /\ ~Did("tablet", "SHOW_NEXT_SENTENCE")
       ELSE ShownNext

-----------------------------------------------------------------------------
(* Guards without their data *)

\* C24: a guard whose data is absent is false and does not raise: with
\* reported_evaluating_sentence_index or current_sentences unset
\* child_sentence_audio_complete takes its unguarded rule, with
\* current_page_number or num_story_pages unset
\* child_end_page_response_complete takes its unguarded rule.
C24_GuardsNeverFail ==
  /\ ( /\ FiredIn("child_sentence_audio_complete", "WAITING_FOR_CHILD_AUDIO")
       /\ \/ fsm.reported_evaluating_sentence_index = None
          \/ fsm.current_sentences = None )
       => fsm.fired.rule = 8
  /\ ( /\ FiredIn("child_end_page_response_complete",
                  "WAITING_FOR_END_PAGE_CHILD_RESPONSE")
       /\ \/ fsm.current_page_number = None
          \/ fsm.num_story_pages = None )
       => fsm.fired.rule = 12

-----------------------------------------------------------------------------
(* A page arrives *)

\* C25: page_info_received fired in WAITING_FOR_NEXT_PAGE, unless
\* tablet_show_next_sentence fails fast, sets the state to
\* WAITING_FOR_CHILD_AUDIO, then sends SHOW_NEXT_SENTENCE with the learner
\* model's child_turn, then starts the child audio timer, in that order, the
\* page's number and sentences having been stored before the trigger.
C25_PageInfoShowsSentence ==
  (FiredIn("page_info_received", "WAITING_FOR_NEXT_PAGE") /\ Running)
    => /\ fsm.state = "WAITING_FOR_CHILD_AUDIO"
       /\ Steps = << Cmd("state", "WAITING_FOR_CHILD_AUDIO"),
                     Cmd("action", "tablet_show_next_sentence"),
                     Cmd("action", "start_child_audio_timer") >>
       /\ ShownNext
       /\ DidBefore("student", "update_sentences",
                    "state", "WAITING_FOR_CHILD_AUDIO")
       /\ DidBefore("tablet", "SHOW_NEXT_SENTENCE",
                    "action", "start_child_audio_timer")

-----------------------------------------------------------------------------
(* Waiting for the child's response *)

\* C26: jibo_finish_tts fired in WAITING_FOR_END_PAGE_JIBO_QUESTION moves to
\* WAITING_FOR_END_PAGE_CHILD_RESPONSE and sends no command, and no other
\* transition enters WAITING_FOR_END_PAGE_CHILD_RESPONSE.
C26_QuestionSpokenThenResponse ==
  /\ [](FiredIn("jibo_finish_tts", "WAITING_FOR_END_PAGE_JIBO_QUESTION")
          => (fsm.state = "WAITING_FOR_END_PAGE_CHILD_RESPONSE" /\ ~Commanded))
  /\ [][(fsm.state # "WAITING_FOR_END_PAGE_CHILD_RESPONSE"
           /\ fsm'.state = "WAITING_FOR_END_PAGE_CHILD_RESPONSE")
          => FiredIn("jibo_finish_tts", "WAITING_FOR_END_PAGE_JIBO_QUESTION")']_vars

\* The robot has asked its question and the child's response is awaited.
C26_Witness ==
  /\ FiredIn("jibo_finish_tts", "WAITING_FOR_END_PAGE_JIBO_QUESTION")
  /\ fsm.state = "WAITING_FOR_END_PAGE_CHILD_RESPONSE"
  /\ fsm.log = <<Cmd("state", "WAITING_FOR_END_PAGE_CHILD_RESPONSE")>>

-----------------------------------------------------------------------------
(* The end of the session *)

\* C27: in END_EVALUATE every jibo_finish_tts applies the rule of that state,
\* not the catch-all: the state stays END_EVALUATE and SHOW_LIBRARY_PANEL is
\* sent to the tablet; END_EVALUATE is left by begin_evaluate_mode only.
C27_EndEvaluateLoops ==
  /\ [](FiredIn("jibo_finish_tts", "END_EVALUATE")
          => /\ fsm.state = "END_EVALUATE"
             /\ fsm.fired.rule = 15
             /\ Did("tablet", "SHOW_LIBRARY_PANEL"))
  /\ [][(fsm.state = "END_EVALUATE" /\ fsm'.state # "END_EVALUATE")
          => fsm'.fired.trigger = "begin_evaluate_mode"]_vars

\* The robot finished speaking after the end of the story.
C27_Witness ==
  /\ FiredIn("jibo_finish_tts", "END_EVALUATE")
  /\ fsm.state = "END_EVALUATE"
  /\ Did("tablet", "SHOW_LIBRARY_PANEL")
  /\ fsm.exc = "none"

-----------------------------------------------------------------------------
(* The end-page questions *)

\* C28: between transitions the end-page question list is non-empty with a
\* cursor that is an index of it in WAITING_FOR_END_PAGE_JIBO_QUESTION and
\* WAITING_FOR_END_PAGE_CHILD_RESPONSE, and empty with the cursor unset in
\* every other state.
C28_QuestionLifecycle ==
  IF fsm.state \in {"WAITING_FOR_END_PAGE_JIBO_QUESTION",
                    "WAITING_FOR_END_PAGE_CHILD_RESPONSE"}
  THEN fsm.end_page_questions # <<>> /\ HasCurrentQuestion(fsm)
  ELSE fsm.end_page_questions = <<>> /\ fsm.end_page_question_idx = None

\* C29: in WAITING_FOR_END_PAGE_CHILD_RESPONSE a spoken response fires
\* child_end_page_response_complete only if try_answer reports that it
\* satisfied the current question; after a response that did not, the state is
\* still WAITING_FOR_END_PAGE_CHILD_RESPONSE and the question list and the
\* cursor are unchanged.
C29_FiredOnlyIfSatisfied ==
  [][\A data \in JiboAsrResults :
       (/\ Running /\ Answering(fsm) /\ ~Silent(data)
        /\ ~try_answer(data.transcription)
        /\ fsm' \in Outcomes("jibo_asr", fsm, data))
         => /\ fsm'.fired.trigger # "child_end_page_response_complete"
            /\ fsm'.state = "WAITING_FOR_END_PAGE_CHILD_RESPONSE"
            /\ fsm'.end_page_questions = fsm.end_page_questions
            /\ fsm'.end_page_question_idx = fsm.end_page_question_idx]_vars

\* C30: the machine starts in APP_START; its state is always one of the
\* eleven states other than BEGIN_EXPLORE, which is never reached; and once
\* the state has left APP_START it never is APP_START again.
C30_ElevenStates ==
  /\ fsm.state = "APP_START"
  /\ [](fsm.state \in States \ {"BEGIN_EXPLORE"})
  /\ [][fsm.state # "APP_START" => fsm'.state # "APP_START"]_vars

\* begin_evaluate_mode fired at the end of a story leads to BEGIN_EVALUATE.
C30_Witness ==
  /\ FiredIn("begin_evaluate_mode", "END_EVALUATE")
  /\ fsm.state = "BEGIN_EVALUATE"

-----------------------------------------------------------------------------
(* The consumer and triggers without a rule *)

\* C31: the consumer never stops because of a trigger without a rule for the
\* current state: after it has processed an event whose trigger is unmatched
\* it is idle again, ready to take the events enqueued behind that one.
C31_ConsumerSurvivesUnmatched ==
  (/\ fsm.event \in Allowed
   /\ fsm.fired.trigger # "none"
   /\ NoRuleFor(fsm.fired.trigger, fsm.fired.source))
    => pc["consumer"] = "idle"

-----------------------------------------------------------------------------
(* Responses and events that fire nothing *)

\* The question type a tap answers.
TapType(kind) == IF kind = "WORD_TAPPED" THEN "WORD_TAP" ELSE "SCENE_OBJECT_TAP"

\* What a handler leaves alone when it fires nothing.
Untouched(s, r) ==
  /\ r.fired.trigger = "none"
  /\ r.state = s.state
  /\ r.child_audio_evaluate_timer = s.child_audio_evaluate_timer
  /\ r.end_page_questions = s.end_page_questions
  /\ r.end_page_question_idx = s.end_page_question_idx

NotTried(r) == \A i \in DOMAIN r.log : r.log[i].cmd # "try_answer"

\* C32: while a response is awaited there is a current question, and a tap or
\* a spoken response whose question type is not the current question's fires
\* no trigger and calls no try_answer: state, question list and cursor stay.
C32_OtherTypeIgnored ==
  /\ [](Answering(fsm) /\ Running => HasCurrentQuestion(fsm))
  /\ [][\A kind \in {"WORD_TAPPED", "SCENE_OBJECT_TAPPED"} :
          (/\ Running /\ Answering(fsm) /\ in_evaluate_mode(fsm)
           /\ HasCurrentQuestion(fsm)
           /\ TapType(kind) # current_end_page_question(fsm)
           /\ fsm' \in Outcomes("process_storybook_event", fsm,
                                Event(kind, FALSE, "", 0, 0)))
            => /\ Untouched(fsm, fsm') /\ NotTried(fsm')
               /\ fsm'.exc = "none"]_vars
  /\ [][\A data \in JiboAsrResults :
          (/\ Running /\ Answering(fsm) /\ ~Silent(data)
           /\ HasCurrentQuestion(fsm)
           /\ current_end_page_question(fsm) # "WORD_PRONOUNCE"
           /\ fsm' \in Outcomes("jibo_asr", fsm, data))
            => /\ Untouched(fsm, fsm') /\ NotTried(fsm')
               /\ fsm'.exc = "none"]_vars

\* A scene-object tap was processed while a word-tap question is pending.
C32_Witness ==
  /\ fsm.event = "SCENE_OBJECT_TAPPED"
  /\ fsm.state = "WAITING_FOR_END_PAGE_CHILD_RESPONSE"
  /\ in_evaluate_mode(fsm)
  /\ HasCurrentQuestion(fsm)
  /\ current_end_page_question(fsm) = "WORD_TAP"
  /\ fsm.fired.trigger = "none"
  /\ pc["consumer"] = "idle"

-----------------------------------------------------------------------------
(* The program with the tablet in either mode, up to the first sentence of  *)
(* a story.                                                                  *)

ModeKinds ==
  {"HELLO_WORLD", "STORY_SELECTED", "SPEECH_ACE_RESULT", "SENTENCE_SWIPED",
   "WORD_TAPPED", "SCENE_OBJECT_TAPPED"}

ModeEvent ==
  /\ \E kind \in ModeKinds :
       storybook_event_ros_message_handler(Event(kind, FALSE, "", 0, 0), 1)
  /\ UNCHANGED <<tq, pc, cur, calls, taken>>

\* The tablet reports its mode, which the user chooses there.
AnyModeState == StorybookStateIn({"EVALUATE_MODE", "EXPLORE_MODE"})

NextModes ==
  \/ ModeEvent
  \/ Consume
  \/ FirstPageInfo
  \/ AnyModeState
  \/ JiboStateHandler

SpecModes == Init /\ [][NextModes]_vars

Frameless == {"SPEECH_ACE_RESULT", "SENTENCE_SWIPED", "WORD_TAPPED", "SCENE_OBJECT_TAPPED"}

-----------------------------------------------------------------------------
(* HELLO_WORLD *)

\* C34: processing HELLO_WORLD in any state sends PING_TEST, the ASR START
\* command and SET_STORYBOOK_MODE (its mode is the constant EVALUATE_MODE)
\* in this order and leaves the machine in BEGIN_EVALUATE; begin_evaluate_mode
\* fired in any state leads to BEGIN_EVALUATE.
C34_HelloBeginsEvaluate ==
  /\ fsm.event = "HELLO_WORLD"
       => /\ fsm.log = << Cmd("tablet", "PING_TEST"), Cmd("asr", "START"),
                          Cmd("tablet", "SET_STORYBOOK_MODE"),
                          Cmd("state", "BEGIN_EVALUATE") >>
          /\ fsm.fired.trigger = "begin_evaluate_mode"
  /\ fsm.fired.trigger = "begin_evaluate_mode"
       => fsm.state = "BEGIN_EVALUATE" /\ fsm.exc = "none"

\* HELLO_WORLD was processed while the child was reading a sentence.
C34_Witness ==
  /\ fsm.event = "HELLO_WORLD"
  /\ FiredIn("begin_evaluate_mode", "WAITING_FOR_CHILD_AUDIO")
  /\ fsm.state = "BEGIN_EVALUATE"
  /\ DidBefore("asr", "START", "tablet", "SET_STORYBOOK_MODE")

-----------------------------------------------------------------------------
(* The timer outside WAITING_FOR_CHILD_AUDIO *)

-----------------------------------------------------------------------------
(* Story load *)

\* C36: the controller leaves WAITING_FOR_STORY_LOAD for WAITING_FOR_NEXT_PAGE,
\* sending NEXT_PAGE, only after a STORY_LOADED event was processed.  Checked
\* where no STORY_LOADED event is ever sent (OpeningKinds): there the end of
\* the robot's speech in WAITING_FOR_STORY_LOAD does not advance the page.
C36_LoadedBeforeFirstPage ==
  /\ fsm.state # "WAITING_FOR_NEXT_PAGE"
  /\ FiredIn("jibo_finish_tts", "WAITING_FOR_STORY_LOAD")
       => fsm.state = "WAITING_FOR_STORY_LOAD" /\ ~Did("tablet", "NEXT_PAGE")

-----------------------------------------------------------------------------
(* The sentences shown *)

\* C37: every SHOW_NEXT_SENTENCE command sent to the tablet carries an index
\* from 0 to the number of sentences of the current page less one, and is
\* sent with current_page_number above 0.
C37_ShownIndexInRange ==
  \A i \in DOMAIN fsm.log :
    fsm.log[i].cmd = "SHOW_NEXT_SENTENCE"
      => /\ fsm.current_page_number # None /\ fsm.current_page_number > 0
         /\ fsm.current_sentences # None
         /\ fsm.log[i].index # None
         /\ 0 <= fsm.log[i].index /\ fsm.log[i].index < fsm.current_sentences

\* The last sentence of a page was shown after the child read the one before.
C37_Witness ==
  /\ FiredIn("child_sentence_audio_complete", "WAITING_FOR_CHILD_AUDIO")
  /\ \E i \in DOMAIN fsm.log :
       /\ fsm.log[i].cmd = "SHOW_NEXT_SENTENCE"
       /\ fsm.log[i].index = fsm.current_sentences - 1
  /\ fsm.current_page_number = MaxPage

-----------------------------------------------------------------------------
(* The consumer's transition in two steps.  The guards, the before-actions  *)
(* and the state change of a rule are one step, its after-actions another;  *)
(* the handler of StorybookState messages runs on its own thread and        *)
(* assigns the attributes it reports without going through the Machine, so  *)
(* it can run between the two.  The handlers that fire triggers are taken   *)
(* between the consumer's transitions only.                                  *)

AudioKinds == {"HELLO_WORLD", "STORY_SELECTED", "RECORD_AUDIO_COMPLETE"}

AudioEvent ==
  /\ \E kind \in AudioKinds :
       storybook_event_ros_message_handler(Event(kind, FALSE, "", 0, 0), 1)
  /\ UNCHANGED <<tq, pc, cur, calls, taken>>

\* process_storybook_event up to the state change of the rule its trigger
\* applies (every kind of AudioKinds calls a trigger).
BeginFrom(h, s, data, env) == Begin(Pre(h, s, data), Trigger(h, s, data), env)

ConsumeBegin ==
  /\ Running
  /\ pc["consumer"] = "idle"
  /\ event_queue # <<>>
  /\ \E env \in Envs :
       fsm' = BeginFrom("process_storybook_event",
                        Enter(fsm, get_nowait(event_queue).event_type),
                        get_nowait(event_queue), env)
  /\ event_queue' = Tail(event_queue)
  /\ pc' = [pc EXCEPT !["consumer"] = IF fsm'.exc # "none" THEN "dead" ELSE "after"]
  /\ cur' = [cur EXCEPT !["consumer"] =
               [h |-> "process_storybook_event", data |-> get_nowait(event_queue),
                rule |-> fsm'.fired.rule]]
  /\ UNCHANGED <<tq, calls, taken>>

\* The after-actions of the rule applied, and the rest of the handler.
ConsumeFinish ==
  /\ Running
  /\ pc["consumer"] = "after"
  /\ \E env \in Envs :
       fsm' = AfterTrigger(cur["consumer"].h,
                           Finish([fsm EXCEPT !.exc = "none"],
                                  cur["consumer"].rule, env),
                           cur["consumer"].data)
  /\ pc' = [pc EXCEPT !["consumer"] = AfterHandler("consumer", fsm')]
  /\ UNCHANGED <<event_queue, tq, cur, calls, taken>>

PageInfoBetween == pc["consumer"] # "after" /\ PageInfoHandler

JiboStateBetween == pc["consumer"] # "after" /\ JiboStateHandler

NextSentence ==
  \/ AudioEvent
  \/ ConsumeBegin
  \/ ConsumeFinish
  \/ StorybookStateHandler
  \/ PageInfoBetween
  \/ JiboStateBetween

SpecSentence == Init /\ [][NextSentence]_vars

\* The rule of child_sentence_audio_complete guarded by
\* more_sentences_available.
GuardedRule == 7

\* C38: once more_sentences_available was true and the guarded rule of
\* child_sentence_audio_complete was applied, its after-action
\* tablet_show_next_sentence does not exit for an index that is too large,
\* whatever the handlers of the other threads assign between the guard and
\* the action.
C38_GuardCoversAction ==
  (/\ cur["consumer"].rule = GuardedRule
   /\ pc["consumer"] # "after"
   /\ fsm.reported_evaluating_sentence_index + 1 >= fsm.current_sentences)
    => fsm.exit_status # 1

-----------------------------------------------------------------------------
(* A reading session with the events and pages the controller waits for:    *)
(* the tablet sends the event that answers the state the controller is in,  *)
(* and the info of a page once the controller has asked for the next page.  *)
(* StorybookState, JiboState and JiboAsrResult messages are published all   *)
(* the time.                                                                 *)

ExpectedKinds(state) ==
  CASE state = "APP_START" -> {"HELLO_WORLD"}
    [] state = "BEGIN_EVALUATE" -> {"STORY_SELECTED"}
    [] state = "WAITING_FOR_STORY_LOAD" -> {"STORY_LOADED"}
    [] state = "WAITING_FOR_CHILD_AUDIO" -> {"RECORD_AUDIO_COMPLETE"}
    [] state = "WAITING_FOR_END_PAGE_CHILD_RESPONSE" ->
         {"WORD_TAPPED", "SCENE_OBJECT_TAPPED"}
    [] OTHER -> {}

ExpectedEvent ==
  /\ pc["consumer"] = "idle"
  /\ \E kind \in ExpectedKinds(fsm.state) :
       storybook_event_ros_message_handler(Event(kind, FALSE, "", 0, 0), 1)
  /\ UNCHANGED <<tq, pc, cur, calls, taken>>

ExpectedPageInfo ==
  /\ Running
  /\ fsm.state = "WAITING_FOR_NEXT_PAGE"
  /\ \E data \in {d \in PageInfos : d.page_number > 0} :
       fsm' \in Outcomes("storybook_page_info", fsm, data)
  /\ UNCHANGED <<event_queue, tq, pc, cur, calls, taken>>

NextSession ==
  \/ ExpectedEvent
  \/ Consume
  \/ ExpectedPageInfo
  \/ StorybookStateHandler
  \/ JiboStateHandler
  \/ JiboAsrHandler

SpecSession == Init /\ [][NextSession]_vars

\* The states of a session that has begun and not reached END_EVALUATE.
InSession == fsm.state \notin {"APP_START", "END_EVALUATE"}

\* C39: a session that has begun reaches END_EVALUATE once the messages it
\* waits for are delivered, and END_STORY is entered only by
\* child_end_page_response_complete with more_pages_available false.  The
\* first is checked by what it needs in every state on the way: the process
\* has not exited and the consumer is alive to take the events still to come.
C39_SessionProgress ==
  /\ InSession => Running /\ pc["consumer"] # "dead"
  /\ (fsm.state = "END_STORY" /\ fsm.fired.trigger # "none"
        /\ fsm.fired.source # "END_STORY")
       => /\ FiredIn("child_end_page_response_complete",
                     "WAITING_FOR_END_PAGE_CHILD_RESPONSE")
          /\ ~MorePages

====
